---- MODULE Spec2Model ----
(***************************************************************************)
(* RidgeRegression (python/glow/wgr/ridge_regression.py) as a state        *)
(* machine: one object, the engine's cache, and the calls a client makes   *)
(* on the object.  Distributed tables are values: a model table is the     *)
(* set of its header rows tagged with the fit call that produced it, a     *)
(* prediction table is a sequence of rows whose value is the symbolic      *)
(* term (block matrix, model, cv, alphas) the engine evaluates.            *)
(***************************************************************************)
EXTENDS Integers, Sequences, FiniteSets, TLC

VARIABLES
    self,           \* the RidgeRegression object's fields
    cached,         \* the tables pinned in the engine's cache
    pc,             \* "idle", or "loco" while transform_loco's loop runs
    frame,          \* transform_loco's locals while its loop runs
    call,           \* the last call: inputs, outcome, what it touched
    fitted,         \* the pair a successful fit returned, None after a failed one
    lastTransform,  \* the table of the last transform since fit/set_alphas
    fitSeq,         \* number of fit calls made so far
    calls           \* number of calls the behaviour may still make

vars == <<self, cached, pc, frame, call, fitted, lastTransform, fitSeq, calls>>

----------------------------------------------------------------------------
(* Bounds of the model *)

MaxChromosomes == 2     \* longest explicit chromosome list a caller passes
MaxFits == 2            \* fit calls per behaviour
MaxCalls == 2           \* calls on the object per behaviour of Spec
MaxCallsLong == 3       \* calls on the object per behaviour of SpecLong

----------------------------------------------------------------------------
(* Values *)

None == [none |-> TRUE]

\* Sample IDs in the label table's order (not the order of the IDs).
Samples == <<"sB", "sA">>

\* Chromosome names are strings, here sequences of characters: the names
\* a caller passes explicitly ("10" and "2": their order as strings is not
\* their order as numbers).
Chromosomes == {<<"1", "0">>, <<"2">>}

\* The alpha lists a caller passes (List[float], any floats; 0.0 and -1.0
\* included, [] for the default grid).
AlphaLists == {<<>>, <<1>>, <<0, -1>>}

RECURSIVE SeqsUpTo(_, _)
SeqsUpTo(S, n) ==
    IF n = 0 THEN {<<>>}
    ELSE LET shorter == SeqsUpTo(S, n - 1)
         IN shorter \cup {Append(q, x) : q \in shorter, x \in S}

ChromosomeLists == SeqsUpTo(Chromosomes, MaxChromosomes)

\* Code point of a character (Python compares str by code point).
Ord(c) ==
    CASE c = "0" -> 48
      [] c = "1" -> 49
      [] c = "2" -> 50
      [] c = "_" -> 95
      [] OTHER -> 97

\* a < b for Python strings.
RECURSIVE StrLess(_, _)
StrLess(a, b) ==
    IF b = <<>> THEN FALSE
    ELSE IF a = <<>> THEN TRUE
    ELSE IF Ord(Head(a)) # Ord(Head(b)) THEN Ord(Head(a)) < Ord(Head(b))
    ELSE StrLess(Tail(a), Tail(b))

StartsWith(s, p) == Len(p) <= Len(s) /\ SubSeq(s, 1, Len(p)) = p

chr_ == <<"c", "h", "r", "_">>
alpha == <<"a", "l", "p", "h", "a">>
block == <<"b", "l", "o", "c", "k">>

\* The header names of the reduced block matrix: chr_<chromosome>_<kind>_0.
Header(chromosome, kind) == chr_ \o chromosome \o <<"_">> \o kind \o <<"_", "0">>

BlockMatrices ==
    { {Header(<<"1">>, block), Header(<<"1", "0">>, block), Header(<<"2">>, alpha)},
      {} }

----------------------------------------------------------------------------
(* Collaborators of ridge_regression.py that live in other modules of the  *)
(* package (ridge_udfs, model_functions, glow.logging)                     *)

\* _check_model / _check_cv: TRUE when the table exists, else the
\* "must call fit before transform" error is raised.
_check_model(model_df) == model_df # None
_check_cv(cv_df) == cv_df # None

\* create_alpha_dict: names the supplied values alpha_0, alpha_1, ... in
\* the order given; the values are stored as supplied.
create_alpha_dict(alphas) ==
    {[name |-> i - 1, value |-> alphas[i]] : i \in 1..Len(alphas)}

\* generate_alphas: the default grid derived from the block matrix, a grid
\* of positive penalties.
generate_alphas(blockdf) == create_alpha_dict(<<1, 10>>)

\* The chromosome embedded in a header by chr_<chromosome>_(alpha|block):
\* the shortest non-empty <chromosome> for which the convention matches.
HeaderChromosomes(h) ==
    {c \in {SubSeq(h, Len(chr_) + 1, Len(chr_) + k) :
              k \in 1..(Len(h) - Len(chr_))} :
        /\ c # <<>>
        /\ StartsWith(h, chr_)
        /\ \/ StartsWith(h, chr_ \o c \o <<"_">> \o alpha)
           \/ StartsWith(h, chr_ \o c \o <<"_">> \o block)}

\* infer_chromosomes: the distinct chromosomes of the block matrix's headers;
\* the engine returns them in no particular order, so every ordering of
\* the set is a possible return value.
infer_chromosomes(blockdf) ==
    LET found == {c \in UNION {HeaderChromosomes(h) : h \in blockdf} :
                     \E h \in blockdf :
                        /\ c \in HeaderChromosomes(h)
                        /\ \A d \in HeaderChromosomes(h) : Len(c) <= Len(d)}
    IN {q \in SeqsUpTo(found, Cardinality(found)) :
            /\ Len(q) = Cardinality(found)
            /\ \A i, j \in 1..Len(q) : i # j => q[i] # q[j]}

\* The solver chain of fit (map, reduce, solve): one coefficient row per
\* header of the block matrix, for the fit call numbered n.
solve_normal_eqn(blockdf, n) == [gen |-> n, rows |-> blockdf]

\* cross_validation: the scores of the fit call that produced model_df.
cross_validation(blockdf, model_df, alphas) == [gen |-> model_df.gen]

\* apply_model_df followed by flatten_prediction_df: one row per sample in
\* the label table's order; the predicted value is a function of the block
\* matrix, the model rows, the cv table and the alphas, kept as that term.
flatten_prediction_df(blockdf, model_df, cv_df, alphas) ==
    [rows |-> [i \in 1..Len(Samples) |->
                 [sample_id |-> Samples[i],
                  contigName |-> <<>>,
                  y_hat |-> [X |-> blockdf, model |-> model_df,
                             cv |-> cv_df, alphas |-> alphas]]]]

\* Mutant of record_hls_event: an event that cannot be emitted raises.
record_hls_event_raises(label, emit) ==
    [raised |-> emit = "failed", emitted |-> emit]

\* record_hls_event: fire-and-forget.  emit says whether the event reaches
\* the logging backend; the call returns normally either way.
record_hls_event(label, emit) == [raised |-> FALSE, emitted |-> emit]

\* DataFrame.cache / DataFrame.unpersist on the engine's cache.
cache(pinned, df) == pinned \cup {df}
unpersist(pinned, df) == pinned \ {df}

\* Column.rlike(^chr_<chromosome>_(alpha|block)) on a header.
rlike(header, chromosome) ==
    \/ StartsWith(header, chr_ \o chromosome \o <<"_">> \o alpha)
    \/ StartsWith(header, chr_ \o chromosome \o <<"_">> \o block)

----------------------------------------------------------------------------
(* The methods of RidgeRegression, as functions from the object's state    *)
(* (and the engine's cache) to the state, the outcome and what was touched *)

\* What a method hands back: the object after it, the cache after it, the
\* error it raised ("none" when it returned), its return value, the engine
\* computations it started, whether the usage event was emitted, and the
\* caller's chromosome list as the method left it.
Outcome(s, pinned, raised, ret, engine, event, caller) ==
    [self |-> s, cached |-> pinned, raised |-> raised, ret |-> ret,
     engine |-> engine, event |-> event, caller |-> caller]

\* Mutant of sort: the list is left in the order given.
sort_omitted(l) == l

\* list.sort() on a list of str: insertion of each element after the
\* elements not greater than it (stable).
RECURSIVE sort(_)
sort(l) ==
    IF l = <<>> THEN <<>>
    ELSE LET rest == sort(SubSeq(l, 1, Len(l) - 1))
             x == l[Len(l)]
             k == Cardinality({i \in 1..Len(rest) : ~StrLess(x, rest[i])})
         IN SubSeq(rest, 1, k) \o <<x>> \o SubSeq(rest, k + 1, Len(rest))

\* __init__ / from_ridge_reduction: the fields after construction.
set_alphas(s, alphas) ==
    [s EXCEPT !._alphas = IF Len(alphas) = 0
                           THEN generate_alphas(s.reduced_block_df)
                           ELSE create_alpha_dict(alphas)]

__init__(reduced_block_df, alphas) ==
    set_alphas([reduced_block_df |-> reduced_block_df,
                _alphas |-> {},
                model_df |-> None,
                cv_df |-> None,
                y_hat_df |-> None], alphas)

get_alphas(s) == s._alphas

\* fit: fail names the stage at which the engine fails ("none": no failure).
fit(s, pinned, n, fail, emit) ==
    IF fail = "solve"
    THEN Outcome(s, pinned, "EngineError", None, <<"solve">>, "not_reached", <<>>)
    ELSE
      LET s1 == [s EXCEPT !.model_df = solve_normal_eqn(s.reduced_block_df, n)]
      IN IF fail = "cross_validation"
         THEN Outcome(s1, pinned, "EngineError", None,
                      <<"solve", "cross_validation">>, "not_reached", <<>>)
         ELSE
           LET s2 == [s1 EXCEPT !.cv_df = cross_validation(s1.reduced_block_df,
                                                           s1.model_df, s1._alphas)]
               ev == record_hls_event("wgrRidgeRegressionFit", emit)
           IN IF ev.raised
              THEN Outcome(s2, pinned, "EventError", None,
                           <<"solve", "cross_validation">>, ev.emitted, <<>>)
              ELSE Outcome(s2, pinned, "none",
                           [model_df |-> s2.model_df, cv_df |-> s2.cv_df],
                           <<"solve", "cross_validation">>, ev.emitted, <<>>)

\* transform
transform(s, pinned, fail, emit) ==
    IF ~_check_model(s.model_df) \/ ~_check_cv(s.cv_df)
    THEN Outcome(s, pinned, "NotFitted", None, <<>>, "not_reached", <<>>)
    ELSE IF fail = "apply_model_df"
    THEN Outcome(s, pinned, "EngineError", None, <<"apply_model_df">>,
                 "not_reached", <<>>)
    ELSE
      LET s1 == [s EXCEPT !.y_hat_df =
                     flatten_prediction_df(s.reduced_block_df, s.model_df,
                                           s.cv_df, s._alphas)]
          ev == record_hls_event("wgrRidgeRegressionTransform", emit)
      IN IF ev.raised
         THEN Outcome(s1, pinned, "EventError", None, <<"apply_model_df">>,
                      ev.emitted, <<>>)
         ELSE Outcome(s1, pinned, "none", s1.y_hat_df, <<"apply_model_df">>,
                      ev.emitted, <<>>)

\* Mutant of fit_transform: an object that already holds a model and a cv
\* table is not fitted again.
fit_transform_keeps_model(s, pinned, n, failFit, failTransform, emit) ==
    IF _check_model(s.model_df) /\ _check_cv(s.cv_df)
    THEN transform(s, pinned, failTransform, emit)
    ELSE LET r == fit(s, pinned, n, failFit, emit)
         IN IF r.raised # "none" THEN r
            ELSE LET t == transform(r.self, r.cached, failTransform, emit)
                 IN [t EXCEPT !.engine = r.engine \o t.engine]

\* fit_transform
fit_transform(s, pinned, n, failFit, failTransform, emit) ==
    LET r == fit(s, pinned, n, failFit, emit)
    IN IF r.raised # "none" THEN r
       ELSE LET t == transform(r.self, r.cached, failTransform, emit)
            IN [t EXCEPT !.engine = r.engine \o t.engine]

\* transform_loco's locals; NoFrame when no loop is running.  applied is
\* the (chromosome, model, cv) the latest inner transform was handed.
NoFrame ==
    [loco_chromosomes |-> <<>>, y_hat_df |-> [rows |-> <<>>],
     orig_model_df |-> None, i |-> 0, applied |-> None]

\* _cache_model_cv_df
_cache_model_cv_df(s, pinned) ==
    IF ~_check_model(s.model_df) \/ ~_check_cv(s.cv_df)
    THEN [raised |-> "NotFitted", cached |-> pinned]
    ELSE [raised |-> "none", cached |-> cache(cache(pinned, s.model_df), s.cv_df)]

\* _unpersist_model_cv_df
_unpersist_model_cv_df(s, pinned) ==
    IF ~_check_model(s.model_df) \/ ~_check_cv(s.cv_df)
    THEN [raised |-> "NotFitted", cached |-> pinned]
    ELSE [raised |-> "none",
          cached |-> unpersist(unpersist(pinned, s.model_df), s.cv_df)]

\* transform_loco up to the loop: the chromosome list, its sort, the cache
\* pin and the loop's locals.  inferred is what infer_chromosomes returns
\* when it is called; fail = "infer_chromosomes" makes that call fail.
transform_loco_begin(s, pinned, chromosomes, inferred, fail) ==
    IF chromosomes = <<>> /\ fail = "infer_chromosomes"
    THEN [out |-> Outcome(s, pinned, "EngineError", None,
                          <<"infer_chromosomes">>, "not_reached", chromosomes),
          frame |-> NoFrame, pc |-> "idle"]
    ELSE
      LET loco_chromosomes == sort(IF chromosomes # <<>> THEN chromosomes
                                                        ELSE inferred)
          \* the sort is in place: an explicit list is the caller's object
          caller == IF chromosomes # <<>> THEN loco_chromosomes ELSE chromosomes
          engine == IF chromosomes # <<>> THEN <<>> ELSE <<"infer_chromosomes">>
          c == _cache_model_cv_df(s, pinned)
      IN IF c.raised # "none"
         THEN [out |-> Outcome(s, c.cached, c.raised, None, engine,
                               "not_reached", caller),
               frame |-> NoFrame, pc |-> "idle"]
         ELSE [out |-> Outcome(s, c.cached, "running", None,
                               engine \o <<"cache">>, "not_reached", caller),
               frame |-> [loco_chromosomes |-> loco_chromosomes,
                          y_hat_df |-> [rows |-> <<>>],
                          orig_model_df |-> s.model_df,
                          i |-> 1,
                          applied |-> None],
               pc |-> "loco"]

\* One iteration of transform_loco's loop, for chromosome number f.i.
transform_loco_iteration(s, pinned, f, fail, emit) ==
    LET chromosome == f.loco_chromosomes[f.i]
    IN IF fail = "filter"
       THEN [out |-> Outcome(s, pinned, "EngineError", None, <<"filter">>,
                             "not_reached", <<>>),
             frame |-> NoFrame, pc |-> "idle"]
       ELSE
         LET loco_model_df ==
                 [s.model_df EXCEPT !.rows = {h \in @ : ~rlike(h, chromosome)}]
             s1 == [s EXCEPT !.model_df = loco_model_df]
             t == transform(s1, pinned, fail, emit)
         IN IF t.raised # "none"
            THEN [out |-> [t EXCEPT !.engine = <<"filter">> \o @],
                  frame |-> NoFrame, pc |-> "idle"]
            ELSE
              LET loco_y_hat_df ==
                      [rows |-> [k \in 1..Len(t.ret.rows) |->
                          [t.ret.rows[k] EXCEPT !.contigName = chromosome]]]
                  \* loco_y_hat_df is the object self.y_hat_df refers to
                  s2 == [t.self EXCEPT !.y_hat_df = loco_y_hat_df,
                                       !.model_df = f.orig_model_df]
              IN [out |-> Outcome(s2, t.cached, "running", None,
                                  <<"filter">> \o t.engine, t.event, <<>>),
                  frame |-> [f EXCEPT
                      !.y_hat_df = [rows |-> @.rows \o loco_y_hat_df.rows],
                      !.i = @ + 1,
                      !.applied = [chromosome |-> chromosome,
                                   model_df |-> loco_model_df,
                                   cv_df |-> s1.cv_df]],
                  pc |-> "loco"]

\* transform_loco after the loop: the index, the release of the pin, the
\* return.  set_index('contigName') raises KeyError on a frame without
\* that column, which is the frame of a loop that never ran.
transform_loco_end(s, pinned, f) ==
    IF \A k \in 1..Len(f.y_hat_df.rows) : f.y_hat_df.rows[k].contigName = <<>>
    THEN [out |-> Outcome(s, pinned, "KeyError", None, <<>>, "not_reached", <<>>),
          frame |-> NoFrame, pc |-> "idle"]
    ELSE
      LET s1 == [s EXCEPT !.y_hat_df = f.y_hat_df]
          u == _unpersist_model_cv_df(s1, pinned)
      IN IF u.raised # "none"
         THEN [out |-> Outcome(s1, u.cached, u.raised, None, <<>>,
                               "not_reached", <<>>),
               frame |-> NoFrame, pc |-> "idle"]
         ELSE [out |-> Outcome(s1, u.cached, "none", s1.y_hat_df,
                               <<"unpersist">>, "not_reached", <<>>),
               frame |-> NoFrame, pc |-> "idle"]

\* fit_transform_loco up to the loop
fit_transform_loco_begin(s, pinned, n, failFit, emit, chromosomes, inferred, fail) ==
    LET r == fit(s, pinned, n, failFit, emit)
    IN IF r.raised # "none"
       THEN [out |-> r, frame |-> NoFrame, pc |-> "idle"]
       ELSE LET b == transform_loco_begin(r.self, r.cached, chromosomes,
                                          inferred, fail)
            IN [b EXCEPT !.out.engine = r.engine \o @,
                         !.out.event = r.event]

----------------------------------------------------------------------------
(* The calls a client makes, one action per call (transform_loco: one per  *)
(* step of its loop; the object is used by one thread, so nothing else    *)
(* runs while the loop does)                                               *)

\* The inputs of a call: the number of the fit it makes, the stage at which
\* its fit / its other engine work fails, whether the usage event reaches
\* the backend, and the chromosome list passed.
In(n, failFit, fail, emit, chromosomes) ==
    [n |-> n, failFit |-> failFit, fail |-> fail, emit |-> emit,
     chromosomes |-> chromosomes]

\* What the engine does during a fit: <<fail, emit>>.  The usage event is
\* emitted only by a fit that got that far.
FitRuns ==
    {<<"none", "ok">>, <<"none", "failed">>,
     <<"solve", "ok">>, <<"cross_validation", "ok">>}

\* What the engine does during a transform: <<fail, emit>>.
TransformRuns ==
    {<<"none", "ok">>, <<"none", "failed">>, <<"apply_model_df", "ok">>}

\* The arguments of a transform_loco call and what the engine does with its
\* chromosome inference: <<chromosomes, inferred, fail>>.  The inference
\* runs (and may fail) only for an empty list.
LocoArgs(s) ==
    {<<c, <<>>, "none">> : c \in ChromosomeLists \ {<<>>}}
      \cup {<<<<>>, q, "none">> : q \in infer_chromosomes(s.reduced_block_df)}
      \cup {<<<<>>, <<>>, "infer_chromosomes">>}

\* fit_transform: <<failFit, fail, emit>>; the transform runs only after a
\* fit that returned.
FitTransformRuns ==
    {<<f[1], "none", f[2]>> : f \in {g \in FitRuns : g[1] # "none"}}
      \cup {<<"none", x[1], x[2]>> : x \in TransformRuns}

\* fit_transform_loco: <<failFit, emit, chromosomes, inferred, fail>>; the
\* chromosome list is read only after a fit that returned.
FitTransformLocoArgs(s) ==
    {<<f[1], f[2], <<>>, <<>>, "none">> : f \in {g \in FitRuns : g[1] # "none"}}
      \cup {<<"none", e, a[1], a[2], a[3]>> :
              e \in {"ok", "failed"}, a \in LocoArgs(s)}

NoIn == In(0, "none", "none", "ok", <<>>)

\* The record of a call: op and at (the step of op that ran last), its
\* inputs, and the outcome of the step.
Call(op, at, in, r) ==
    [op |-> op, at |-> at, input |-> in,
     raised |-> r.raised, ret |-> r.ret, engine |-> r.engine,
     event |-> r.event, caller |-> r.caller]

Constructed ==
    /\ \E reduced_block_df \in BlockMatrices, alphas \in AlphaLists :
          self = __init__(reduced_block_df, alphas)
    /\ cached = {}
    /\ pc = "idle"
    /\ frame = NoFrame
    /\ call = [op |-> "__init__", at |-> "call", input |-> NoIn,
               raised |-> "none", ret |-> None,
               engine |-> <<>>, event |-> "not_reached", caller |-> <<>>]
    /\ fitted = None
    /\ lastTransform = None
    /\ fitSeq = 0

Init == Constructed /\ calls = MaxCalls

InitLong == Constructed /\ calls = MaxCallsLong

SetAlphas ==
    /\ pc = "idle"
    /\ calls > 0
    /\ calls' = calls - 1
    /\ \E alphas \in AlphaLists :
          /\ self' = set_alphas(self, alphas)
          /\ call' = Call("set_alphas", "call", NoIn,
                          Outcome(self', cached, "none", None, <<>>,
                                  "not_reached", <<>>))
    /\ lastTransform' = None
    /\ UNCHANGED <<cached, pc, frame, fitted, fitSeq>>

Fit ==
    /\ pc = "idle"
    /\ calls > 0
    /\ calls' = calls - 1
    /\ fitSeq < MaxFits
    /\ \E run \in FitRuns :
          LET fail == run[1]
              emit == run[2]
              r == fit(self, cached, fitSeq + 1, fail, emit)
          IN /\ self' = r.self
             /\ cached' = r.cached
             /\ call' = Call("fit", "call",
                             In(fitSeq + 1, fail, "none", emit, <<>>), r)
             /\ fitted' = IF r.raised = "none" THEN r.ret ELSE None
    /\ fitSeq' = fitSeq + 1
    /\ lastTransform' = None
    /\ UNCHANGED <<pc, frame>>

Transform ==
    /\ pc = "idle"
    /\ calls > 0
    /\ calls' = calls - 1
    /\ \E run \in TransformRuns :
          LET fail == run[1]
              emit == run[2]
              r == transform(self, cached, fail, emit)
          IN /\ self' = r.self
             /\ cached' = r.cached
             /\ call' = Call("transform", "call",
                             In(0, "none", fail, emit, <<>>), r)
             /\ lastTransform' = IF r.raised = "none" THEN r.ret ELSE lastTransform
    /\ UNCHANGED <<pc, frame, fitted, fitSeq>>

FitTransform ==
    /\ pc = "idle"
    /\ calls > 0
    /\ calls' = calls - 1
    /\ calls > 0
    /\ calls' = calls - 1
    /\ fitSeq < MaxFits
    /\ \E run \in FitTransformRuns :
          LET failFit == run[1]
              fail == run[2]
              emit == run[3]
              r == fit_transform(self, cached, fitSeq + 1, failFit, fail, emit)
          IN /\ self' = r.self
             /\ cached' = r.cached
             /\ call' = Call("fit_transform", "call",
                             In(fitSeq + 1, failFit, fail, emit, <<>>), r)
             /\ fitted' = IF _check_model(r.self.model_df) /\ _check_cv(r.self.cv_df)
                             /\ r.self.model_df.gen = fitSeq + 1
                             /\ r.self.cv_df.gen = fitSeq + 1
                          THEN [model_df |-> r.self.model_df, cv_df |-> r.self.cv_df]
                          ELSE None
             /\ lastTransform' = IF r.raised = "none" THEN r.ret ELSE None
    /\ fitSeq' = fitSeq + 1
    /\ UNCHANGED <<pc, frame>>

TransformLocoBegin ==
    /\ pc = "idle"
    /\ calls > 0
    /\ calls' = calls - 1
    /\ \E a \in LocoArgs(self) :
          LET chromosomes == a[1]
              inferred == a[2]
              fail == a[3]
              b == transform_loco_begin(self, cached, chromosomes, inferred, fail)
          IN /\ self' = b.out.self
             /\ cached' = b.out.cached
             /\ pc' = b.pc
             /\ frame' = b.frame
             /\ call' = Call("transform_loco", "begin",
                             In(0, "none", fail, "ok", chromosomes),
                             b.out)
    /\ UNCHANGED <<fitted, lastTransform, fitSeq>>

FitTransformLocoBegin ==
    /\ pc = "idle"
    /\ calls > 0
    /\ calls' = calls - 1
    /\ calls > 0
    /\ calls' = calls - 1
    /\ fitSeq < MaxFits
    /\ \E a \in FitTransformLocoArgs(self) :
          LET failFit == a[1]
              emit == a[2]
              chromosomes == a[3]
              inferred == a[4]
              fail == a[5]
              b == fit_transform_loco_begin(self, cached, fitSeq + 1, failFit, emit,
                                            chromosomes, inferred, fail)
          IN /\ self' = b.out.self
             /\ cached' = b.out.cached
             /\ pc' = b.pc
             /\ frame' = b.frame
             /\ call' = Call("fit_transform_loco", "begin",
                             In(fitSeq + 1, failFit, fail, emit, chromosomes),
                             b.out)
             /\ fitted' = IF _check_model(b.out.self.model_df)
                             /\ _check_cv(b.out.self.cv_df)
                             /\ b.out.self.model_df.gen = fitSeq + 1
                             /\ b.out.self.cv_df.gen = fitSeq + 1
                          THEN [model_df |-> b.out.self.model_df,
                                cv_df |-> b.out.self.cv_df]
                          ELSE None
    /\ fitSeq' = fitSeq + 1
    /\ lastTransform' = None

TransformLocoIteration ==
    /\ pc = "loco"
    /\ calls' = calls
    /\ frame.i <= Len(frame.loco_chromosomes)
    /\ \E run \in TransformRuns \cup {<<"filter", "ok">>} :
          LET fail == run[1]
              emit == run[2]
              b == transform_loco_iteration(self, cached, frame, fail, emit)
          IN /\ self' = b.out.self
             /\ cached' = b.out.cached
             /\ pc' = b.pc
             /\ frame' = b.frame
             /\ call' = [call EXCEPT !.at = "loop",
                                     !.input.fail = fail,
                                     !.raised = b.out.raised,
                                     !.ret = b.out.ret,
                                     !.engine = b.out.engine]
    /\ UNCHANGED <<fitted, lastTransform, fitSeq>>

TransformLocoEnd ==
    /\ pc = "loco"
    /\ calls' = calls
    /\ frame.i > Len(frame.loco_chromosomes)
    /\ LET b == transform_loco_end(self, cached, frame)
       IN /\ self' = b.out.self
          /\ cached' = b.out.cached
          /\ pc' = b.pc
          /\ frame' = b.frame
          /\ call' = [call EXCEPT !.at = "end",
                                  !.raised = b.out.raised,
                                  !.ret = b.out.ret,
                                  !.engine = b.out.engine,
                                  !.event = b.out.event]
    /\ UNCHANGED <<fitted, lastTransform, fitSeq>>

Next ==
    \/ SetAlphas
    \/ Fit
    \/ Transform
    \/ FitTransform
    \/ TransformLocoBegin
    \/ FitTransformLocoBegin
    \/ TransformLocoIteration
    \/ TransformLocoEnd

Spec == Init /\ [][Next]_vars

SpecLong == InitLong /\ [][Next]_vars

----------------------------------------------------------------------------
(* Properties *)

\* A step that is the call of op by the client (for transform_loco and
\* fit_transform_loco: the call's first step).
Calls(op) == pc = "idle" /\ calls' # calls /\ call'.op = op

Unfitted(s) == ~_check_model(s.model_df) \/ ~_check_cv(s.cv_df)

\* C1: transform or transform_loco on an object whose model or cv table is
\* absent raises the not-fitted error at once: no engine computation was
\* started, and the object, the cache and the caller's list are unchanged.
C1_NotFittedFailsImmediately ==
    [][ ((Calls("transform") \/ Calls("transform_loco")) /\ Unfitted(self))
          => /\ call'.raised = "NotFitted"
             /\ call'.engine = <<>>
             /\ self' = self
             /\ cached' = cached
             /\ call'.caller = call'.input.chromosomes ]_vars

\* C2: transform_loco holds the model and cv tables pinned while its loop
\* runs, and no call ends with a table still pinned.
C2_PinReleasedOnEveryExit ==
    /\ pc = "loco" => {frame.orig_model_df, self.cv_df} \subseteq cached
    /\ pc = "idle" => cached = {}

\* C3: once fit has succeeded, model_df and cv_df stay the tables that fit
\* returned, through any later transform and transform_loco calls.
C3_ModelImmutableAfterFit ==
    fitted # None =>
        /\ self.model_df = fitted.model_df
        /\ self.cv_df = fitted.cv_df

\* Position of a sample in the label table.
Pos(sample_id) == CHOOSE i \in 1..Len(Samples) : Samples[i] = sample_id

LocoReturned ==
    /\ call.op \in {"transform_loco", "fit_transform_loco"}
    /\ call.at = "end"
    /\ call.raised = "none"

C5_TransformIdempotent ==
    [][ (Calls("transform") /\ call'.raised = "none" /\ lastTransform # None)
          => call'.ret = lastTransform ]_vars

\* C6: fit_transform leaves the object, the cache, the outcome and the
\* returned table that fit followed by transform leave on the same inputs
\* and the same engine behaviour; fit_transform_loco enters the loop of
\* transform_loco in the state fit followed by transform_loco enters it
\* (the loop's steps are then the same steps).
C6_FitTransformIsFitThenTransform ==
    [][ /\ Calls("fit_transform") =>
            LET in == call'.input
                r1 == fit(self, cached, fitSeq + 1, in.failFit, in.emit)
                r2 == IF r1.raised # "none" THEN r1
                      ELSE transform(r1.self, r1.cached, in.fail, in.emit)
            IN /\ self' = r2.self
               /\ cached' = r2.cached
               /\ call'.raised = r2.raised
               /\ call'.ret = r2.ret
        /\ Calls("fit_transform_loco") =>
            LET in == call'.input
                r1 == fit(self, cached, fitSeq + 1, in.failFit, in.emit)
            IN IF r1.raised # "none"
               THEN /\ self' = r1.self
                    /\ cached' = r1.cached
                    /\ call'.raised = r1.raised
                    /\ pc' = "idle"
               ELSE \E a \in LocoArgs(r1.self) :
                       LET b == transform_loco_begin(r1.self, r1.cached,
                                                     a[1], a[2], a[3])
                       IN /\ a[1] = in.chromosomes
                          /\ a[3] = in.fail
                          /\ self' = b.out.self
                          /\ cached' = b.out.cached
                          /\ call'.raised = b.out.raised
                          /\ call'.caller = b.out.caller
                          /\ pc' = b.pc
                          /\ frame' = b.frame ]_vars

\* C6 witness: fit_transform returned a table on an object that had been
\* fitted before (its fit is the second one).
C6_Witness ==
    /\ call.op = "fit_transform"
    /\ call.raised = "none"
    /\ call.input.n = 2
    /\ call.ret = self.y_hat_df

C8_AlphasPositiveAndUnique ==
    \A a, b \in get_alphas(self) :
        /\ a.value > 0
        /\ a.name = b.name => a = b

\* C9: the model the inner transform is handed for chromosome C is the
\* fitted model minus exactly the rows matching chr_<C>_(alpha|block), and
\* the cv table it is handed is the fitted one.
C9_LocoModelIsFittedMinusChromosome ==
    (pc = "loco" /\ frame.applied # None /\ fitted # None) =>
        /\ frame.applied.model_df =
              [fitted.model_df EXCEPT
                  !.rows = {h \in @ : ~rlike(h, frame.applied.chromosome)}]
        /\ frame.applied.cv_df = fitted.cv_df

\* C10: between calls, model_df and cv_df are both absent or both the
\* tables of one fit call.
C10_ModelAndCvPaired ==
    pc = "idle" =>
        \/ self.model_df = None /\ self.cv_df = None
        \/ /\ self.model_df # None
           /\ self.cv_df # None
           /\ self.model_df.gen = self.cv_df.gen

====
